---- MODULE Spec2Model ----
(***************************************************************************)
(* Verification model of the trinova-team podcast/video generator.         *)
(*                                                                         *)
(* The repository is a set of independent, single-threaded entry points.   *)
(* Each one is modelled as its own state machine over its own group of     *)
(* variables, with its own specification:                                  *)
(*                                                                         *)
(*   SpecVeo      services/video_service.py  start / wait_done / download  *)
(*   SpecSolve    solution.py solve() with output_manager.py               *)
(*   SpecPodcast  generate_podcast.py main()                               *)
(*   SpecImage    services/image_service*.py generate()                    *)
(*   SpecUnwrap   the response-unwrapping code of every client operation   *)
(*   SpecParseSegments  solution.py parse_segments on a script text        *)
(*   SpecParseScript    generate_podcast.py parse_script on script lines   *)
(*   SpecPaths    the path strings solve and main give their working files *)
(*   SpecOutputManager  output_manager.py, any sequence of method calls   *)
(*                                                                         *)
(* A specification leaves the variables of the other groups at their idle  *)
(* values.                                                                 *)
(***************************************************************************)
EXTENDS Integers, Sequences, FiniteSets, TLC

None == "None"

\* A Python value that is either None or an object: <<>> or <<object>>.
Nothing == <<>>
Some(x) == <<x>>

\* ---------------------------------------------------------------------------
\* Bounds of the model (not program constants)
\* ---------------------------------------------------------------------------
MaxTimeout == 3
MaxInterval == 2
MaxLatency == 1
MaxBlocks == 2        \* [Segment N] blocks in a script
MaxFileSize == 2      \* size in bytes of an encoded final video
MaxLines == 3         \* dialogue lines parse_script returns
MaxChunkFrames == 2   \* frames of a synthesized chunk
MaxImages == 2        \* the argument n of generate
MaxTextBlocks == 2    \* [Segment N] blocks in a script text given to parse_segments
MaxFileLines == 2     \* lines of the script file given to parse_script
MaxCalls == 3         \* calls made on one OutputManager

VARIABLES
  \* ---- services/video_service.py: one start / wait_done / download flow ----
  timeout_sec,      \* wait_done argument
  interval_sec,     \* wait_done argument
  now,              \* time.time()
  start,            \* wait_done local: time.time() at entry (-1 before entry)
  veo_pc,           \* position of the flow
  s,                \* wait_done local: the last status response (None before one)
  wd_result,        \* the status response wait_done returned (None if none)
  veo_error,        \* the exception that ended the flow (None if none)
  polls,            \* number of status requests issued
  sawDone,          \* some status response carried a truthy "done"
  statusFailed,     \* some status request failed at transport level
  download_requests,\* number of download GET requests issued
  video_file,       \* whether output_path was written
  check_times,      \* time.time() at each status request, in order
  status_took,      \* seconds spent inside the status requests, in all
  \* ---- solution.py solve(), one run, with its OutputManager ----
  api_key_set,      \* environment: GEMINI_API_KEY / AI_API_KEY is set
  script_exists,    \* environment: script.txt exists
  gif_exists,       \* environment: image_ref/diaThan.gif exists
  script,           \* environment: the [Segment N] blocks of script.txt, in order
  sol_pc,           \* position of solve
  sol_error,        \* the exception that ended solve (None if none)
  segments,         \* solve local: parse_segments(script_content)
  char_refs,        \* solve local: character name -> reference image path
  background_ref,   \* whether background.png was written
  image_requests,   \* number of image-generation requests issued
  seg_i,            \* solve local: loop index i of steps 0, 2 and 3
  tts_requests,     \* speech requests issued, in order
  audio_paths,      \* solve local: segment index -> audio path
  video_paths,      \* solve local: paths of the written per-segment videos
  video_clips,      \* the per-segment videos written (file contents), in order
  final_video,      \* output_final.mp4 as written by step 4 (Nothing before)
  failed_calls,     \* remote calls (image, speech) that ended in an exception
  om_solutions,     \* OutputManager.metadata["solutions"]
  total_files,      \* OutputManager.metadata["total_files"]
  total_size_mb,    \* OutputManager.metadata["total_size_mb"], in 1/MB units
  final_copies,     \* files copied under <folder>/final by save_final_file
  metadata_json,    \* whether <folder>/final/metadata.json was written
  \* ---- generate_podcast.py main(), one run ----
  pod_pc,           \* position of main
  pod_error,        \* the exception that ended main (None if none)
  dialogues,        \* main local: what parse_script returned (Nothing is None)
  temp_dir,         \* whether TEMP_DIR exists
  wav_files,        \* the WAV files under TEMP_DIR: path -> number of frames
  line_i,           \* main local: lines of `dialogues` the loop has finished
  audio_files,      \* main local: paths to combine, in order
  synth_requests,   \* speech requests issued by generate_audio_chunk, in order
  output_wav,       \* OUTPUT_FILE: Nothing, or Some(number of frames)
  reported,         \* what main printed about the script ("none" if nothing)
  chunk_results,    \* what each generate_audio_chunk call returned and wrote
  combine_error,    \* combine_wav_files printed "Error combining WAV files"
  \* ---- services/image_service*.py: one generate() call ----
  img_service,      \* the class whose generate is called
  img_args,         \* the arguments n, size, aspect_ratio
  img_pc,           \* position of generate
  img_requests,     \* the JSON bodies POSTed, in order
  img_responses,    \* how each POST ended, in order
  img_error,        \* the exception generate raised (None if none)
  \* ---- one response-unwrapping client operation ----
  unw_op,           \* the operation called
  unw_body,         \* the decoded JSON body the operation unwraps
  unw_pc,           \* position of the operation
  unw_requests,     \* HTTP requests issued for the operation
  unw_decoded,      \* whether the request succeeded and its body was decoded
  unw_result,       \* what the operation returned (Nothing while it has not)
  unw_error,        \* the exception it raised to its caller (None if none)
  unw_file,         \* whether the operation wrote its output file
  \* ---- solution.py parse_segments(script), one call ----
  ps_blocks,        \* the segment blocks the script text was written as
  ps_script,        \* the argument: the script text, as a sequence of tokens
  ps_pc,            \* position of the call
  ps_result,        \* the mapping returned
  \* ---- generate_podcast.py parse_script(file_path), one call ----
  sc_lines,         \* the lines of the file (Nothing: the file does not exist)
  sc_pc,            \* position of the call
  sc_result,        \* what the call returned (Nothing: None)
  \* ---- the file names two working files of one run are given ----
  pa_files,         \* the two files: what each holds, and for which index
  pa_pc,            \* position
  pa_names,         \* the path strings built for the two files
  \* ---- output_manager.py: one OutputManager driven through its methods ----
  om_pc,            \* "ready" once constructed
  om_dirs,          \* the solution folders on disk that hold a final/ directory
  om_last           \* the last call: its rank, method, solution number, outcome

veoVars == <<timeout_sec, interval_sec, now, start, veo_pc, s, wd_result,
             veo_error, polls, sawDone, statusFailed, download_requests,
             video_file, check_times, status_took>>

solveVars == <<api_key_set, script_exists, gif_exists, script, sol_pc, sol_error,
               segments, char_refs, background_ref, image_requests, seg_i,
               tts_requests, audio_paths, video_paths, video_clips, final_video,
               failed_calls>>

omVars == <<om_solutions, total_files, total_size_mb, final_copies, metadata_json>>

podVars == <<pod_pc, pod_error, dialogues, temp_dir, wav_files, line_i,
             audio_files, synth_requests, output_wav, reported, chunk_results,
             combine_error>>

imgVars == <<img_service, img_args, img_pc, img_requests, img_responses, img_error>>

unwVars == <<unw_op, unw_body, unw_pc, unw_requests, unw_decoded, unw_result,
             unw_error, unw_file>>

psVars == <<ps_blocks, ps_script, ps_pc, ps_result>>

scVars == <<sc_lines, sc_pc, sc_result>>

paVars == <<pa_files, pa_pc, pa_names>>

omcVars == <<om_pc, om_dirs, om_last>>

vars == <<veoVars, solveVars, omVars, podVars, imgVars, unwVars, psVars, scVars,
          paVars, omcVars>>

\* What each entry point leaves alone: the variables of the others.
notVeo == <<solveVars, omVars, podVars, imgVars, unwVars, psVars, scVars, paVars,
            omcVars>>
notSolve == <<veoVars, podVars, imgVars, unwVars, psVars, scVars, paVars,
              omcVars>>
notPod == <<veoVars, solveVars, omVars, imgVars, unwVars, psVars, scVars, paVars,
            omcVars>>
notImg == <<veoVars, solveVars, omVars, podVars, unwVars, psVars, scVars, paVars,
            omcVars>>
notUnw == <<veoVars, solveVars, omVars, podVars, imgVars, psVars, scVars, paVars,
            omcVars>>
notPs == <<veoVars, solveVars, omVars, podVars, imgVars, unwVars, scVars, paVars,
           omcVars>>
notPa == <<veoVars, solveVars, omVars, podVars, imgVars, unwVars, psVars, scVars,
           omcVars>>
notSc == <<veoVars, solveVars, omVars, podVars, imgVars, unwVars, psVars, paVars,
           omcVars>>
notOm == <<veoVars, solveVars, podVars, imgVars, unwVars, psVars, scVars, paVars>>

\* ===========================================================================
\* services/video_service.py
\* ===========================================================================

\* A decoded status body: the "done" field as the server sent it ("absent",
\* "false" or "true") and whether response.generateVideoResponse.generatedSamples[0]
\* .video.uri is there.
StatusBodies == [done : {"absent", "false", "true"}, uri : BOOLEAN]

\* s.get("done") in `if s.get("done")`: an absent key gives None, which is falsy.
StatusDoneAlways(body) == TRUE
StatusDone(body) == body.done = "true"

\* `while time.time() - start < timeout_sec`
WaitGuard(t, t0, timeout) == t - t0 < timeout

VeoIdle ==
  /\ timeout_sec = 0 /\ interval_sec = 0 /\ now = 0 /\ start = -1
  /\ veo_pc = "idle" /\ s = Nothing /\ wd_result = Nothing /\ veo_error = None
  /\ polls = 0 /\ sawDone = FALSE /\ statusFailed = FALSE
  /\ download_requests = 0 /\ video_file = FALSE
  /\ check_times = <<>> /\ status_took = 0

VeoInit ==
  /\ timeout_sec \in 0..MaxTimeout
  /\ interval_sec \in 1..MaxInterval
  /\ now = 0 /\ start = -1
  /\ veo_pc = "start" /\ s = Nothing /\ wd_result = Nothing /\ veo_error = None
  /\ polls = 0 /\ sawDone = FALSE /\ statusFailed = FALSE
  /\ download_requests = 0 /\ video_file = FALSE
  /\ check_times = <<>> /\ status_took = 0

\* start(): POST predictLongRunning; raise_for_status; return data["name"].
VeoStart ==
  /\ veo_pc = "start"
  /\ \E ok \in BOOLEAN :
       IF ok THEN veo_pc' = "wait_done" /\ veo_error' = veo_error
             ELSE veo_pc' = "raised" /\ veo_error' = "HTTPError"
  /\ UNCHANGED <<notVeo, timeout_sec, interval_sec, now, start, s, wd_result, polls,
                 sawDone, statusFailed, download_requests, video_file,
                 check_times, status_took>>

\* wait_done entry: start = time.time()
WaitDoneEnter ==
  /\ veo_pc = "wait_done"
  /\ start' = now
  /\ veo_pc' = "check"
  /\ UNCHANGED <<notVeo, timeout_sec, interval_sec, now, s, wd_result, veo_error, polls,
                 sawDone, statusFailed, download_requests, video_file,
                 check_times, status_took>>

\* The loop test, and `raise TimeoutError` once it fails.
WaitDoneCheck ==
  /\ veo_pc = "check"
  /\ IF WaitGuard(now, start, timeout_sec)
       THEN veo_pc' = "poll" /\ veo_error' = veo_error
       ELSE veo_pc' = "raised" /\ veo_error' = "TimeoutError"
  /\ UNCHANGED <<notVeo, timeout_sec, interval_sec, now, start, s, wd_result, polls,
                 sawDone, statusFailed, download_requests, video_file,
                 check_times, status_took>>

\* s = self.status(operation_name): a GET that takes d seconds and either fails
\* (raise_for_status, out of wait_done) or yields a decoded body; then
\* `if s.get("done"): return s`.
WaitDonePoll ==
  /\ veo_pc = "poll"
  /\ polls' = polls + 1
  /\ check_times' = Append(check_times, now)
  /\ \E d \in 0..MaxLatency :
       /\ now' = now + d
       /\ status_took' = status_took + d
       /\ \/ /\ statusFailed' = TRUE
             /\ veo_pc' = "raised" /\ veo_error' = "HTTPError"
             /\ UNCHANGED <<s, wd_result, sawDone>>
          \/ \E body \in StatusBodies :
               /\ s' = Some(body)
               /\ sawDone' = (sawDone \/ body.done = "true")
               /\ IF StatusDone(body)
                    THEN veo_pc' = "returned" /\ wd_result' = Some(body)
                    ELSE veo_pc' = "sleep" /\ wd_result' = wd_result
               /\ UNCHANGED <<statusFailed, veo_error>>
  /\ UNCHANGED <<notVeo, timeout_sec, interval_sec, start, download_requests, video_file>>

\* time.sleep(interval_sec)
WaitDoneSleep ==
  /\ veo_pc = "sleep"
  /\ now' = now + interval_sec
  /\ veo_pc' = "check"
  /\ UNCHANGED <<notVeo, timeout_sec, interval_sec, start, s, wd_result, veo_error, polls,
                 sawDone, statusFailed, download_requests, video_file,
                 check_times, status_took>>

\* download(status_response, output_path), called with what wait_done returned.
VeoDownload ==
  /\ veo_pc = "returned"
  /\ IF ~wd_result[1].uri
       THEN \* `if not samples` / `if not uri`: ValueError before any request
            /\ veo_pc' = "raised" /\ veo_error' = "ValueError"
            /\ UNCHANGED <<download_requests, video_file>>
       ELSE /\ download_requests' = download_requests + 1
            /\ \E ok \in BOOLEAN :
                 IF ok THEN /\ veo_pc' = "downloaded" /\ video_file' = TRUE
                            /\ veo_error' = veo_error
                       ELSE /\ veo_pc' = "raised" /\ veo_error' = "HTTPError"
                            /\ video_file' = video_file
  /\ UNCHANGED <<notVeo, timeout_sec, interval_sec, now, start, s, wd_result, polls,
                 sawDone, statusFailed,
                 check_times, status_took>>

VeoNext ==
  \/ VeoStart
  \/ WaitDoneEnter
  \/ WaitDoneCheck
  \/ WaitDonePoll
  \/ WaitDoneSleep
  \/ VeoDownload

\* ===========================================================================
\* output_manager.py
\* ===========================================================================

\* f"solution_{solution_number:02d}"
SolutionKey(solution_number) == <<"solution", solution_number>>

\* A path: directory under the solution folder, file stem, and the character
\* name or index embedded in the file name ("" / 0 when there is none).
Path(dir, stem, name, n) == [dir |-> dir, stem |-> stem, name |-> name, n |-> n]

\* A dict with key k set to v.
DictSet(d, k, v) == [x \in DOMAIN d \cup {k} |-> IF x = k THEN v ELSE d[x]]

\* OutputManager.__init__: the fresh run record.
OmInit ==
  /\ om_solutions = <<>> /\ total_files = 0 /\ total_size_mb = 0
  /\ final_copies = {} /\ metadata_json = FALSE

\* The names a solution is created under, and what
\* solution_name.replace(' ', '_').lower() makes of each (line 34).
SolutionNames == {"Vietnamese Video", "Unknown"}
FolderName(solution_name) ==
  CASE solution_name = "Vietnamese Video" -> "vietnamese_video"
    [] solution_name = "Unknown" -> "unknown"

\* f"{base_dir}/solution_{solution_number:02d}_{name}"
SolutionFolder(solution_number, solution_name) ==
  <<SolutionKey(solution_number), FolderName(solution_name)>>

\* create_solution_folder: registers the solution with an empty step list,
\* whether or not the number was registered before.
CreateSolutionFolder(sols, solution_number, solution_name) ==
  DictSet(sols, SolutionKey(solution_number),
          [solution_number |-> solution_number, solution_name |-> solution_name,
           folder |-> SolutionFolder(solution_number, solution_name),
           steps |-> <<>>])

\* _get_solution_folder
GetSolutionFolder(sols, solution_number) ==
  IF SolutionKey(solution_number) \in DOMAIN sols
    THEN sols[SolutionKey(solution_number)].folder
    ELSE <<SolutionKey(solution_number), "unknown">>

\* _add_step: appends to the solution's steps when the solution is registered.
AddStepDropped(sols, solution_number, step_info) == sols
AddStep(sols, solution_number, step_info) ==
  IF SolutionKey(solution_number) \in DOMAIN sols
    THEN [sols EXCEPT ![SolutionKey(solution_number)].steps = Append(@, step_info)]
    ELSE sols

\* file_size / (1024*1024): sizes in MB are kept as their numerator over
\* 1024*1024, so that sums of them are exact.
SizeMb(file_size) == file_size

\* save_final_file, lines 64-74: the two shutil.copy calls, in order.  `copies`
\* is how many of them succeeded: the first failure raises.
MainPath(solution_folder) == <<solution_folder, "final", "main">>
BackupPath(solution_folder) == <<solution_folder, "final", "backup">>
CopiedFiles(solution_folder, copies) ==
  (IF copies >= 1 THEN {MainPath(solution_folder)} ELSE {})
    \cup (IF copies >= 2 THEN {BackupPath(solution_folder)} ELSE {})

\* The step of lines 80-87.
FinalStep(solution_folder, file_size, file_type) ==
  [name |-> <<"Final", file_type>>, file |-> MainPath(solution_folder),
   backup |-> BackupPath(solution_folder), size_mb |-> SizeMb(file_size),
   file_type |-> file_type]

\* ===========================================================================
\* solution.py
\* ===========================================================================

TOTAL_DURATION == 240
SegmentSeconds == 8
DefaultDuration == 8

\* math.ceil(TOTAL_DURATION / 8)
NUM_SEGMENTS == (TOTAL_DURATION + SegmentSeconds - 1) \div SegmentSeconds

\* range(1, NUM_SEGMENTS + 1): the last index iterated
LastIndexExclusive == NUM_SEGMENTS - 1
LastIndex == NUM_SEGMENTS

\* CHARACTER_DESCRIPTIONS.items(), in insertion order
Characters == <<"nguoi_cao_tuoi", "chuyen_gia">>

VOICE_MAP == [nguoi_cao_tuoi |-> "Vietnamese-Male-Old",
              chuyen_gia |-> "Vietnamese-Male-Young"]

\* A visual description is a sequence of words; `key in visual_desc`.
Contains(key, visual_desc) == \E k \in 1..Len(visual_desc) : visual_desc[k] = key

Visuals == { <<>>, <<"nguoi_cao_tuoi">>, <<"chuyen_gia">>,
             <<"chuyen_gia", "nguoi_cao_tuoi">> }
Dialogues == {"", "xin chao"}

\* Indices a script block can carry: two inside 1..NUM_SEGMENTS, one outside.
BlockIndices == {1, 2, NUM_SEGMENTS + 1}
Blocks == [index : BlockIndices, visual : Visuals, dialogue : Dialogues]

RECURSIVE SeqsUpTo(_, _)
SeqsUpTo(S, n) ==
  IF n = 0 THEN {<<>>}
  ELSE LET shorter == SeqsUpTo(S, n - 1)
       IN shorter \cup {Append(q, x) : q \in {r \in shorter : Len(r) = n - 1}, x \in S}

\* Scripts: blocks numbered in increasing order.
Scripts == {sc \in SeqsUpTo(Blocks, MaxBlocks) :
              \A a, b \in 1..Len(sc) : a < b => sc[a].index < sc[b].index}

\* parse_segments: {int(m[0]): {"visual": ..., "dialogue": ...} for m in matches};
\* in a dict comprehension a later match with the same number replaces an earlier.
ParseSegments(sc) ==
  [n \in {sc[k].index : k \in 1..Len(sc)} |->
     LET last == CHOOSE k \in 1..Len(sc) :
                   /\ sc[k].index = n
                   /\ \A j \in 1..Len(sc) : sc[j].index = n => j <= k
     IN [visual |-> sc[last].visual, dialogue |-> sc[last].dialogue]]

\* segments.get(i, {}).get(field, "")
SegmentField(segs, idx, field) ==
  IF idx \in DOMAIN segs THEN segs[idx][field]
  ELSE IF field = "visual" THEN <<>> ELSE ""

\* Step 2, lines 95-97: the voice of a segment.
VoiceFor(visual_desc) ==
  IF Contains("nguoi_cao_tuoi", visual_desc)
    THEN VOICE_MAP["nguoi_cao_tuoi"]
    ELSE VOICE_MAP["chuyen_gia"]

RefPath(name) == Path("reference", "character", name, 0)
BackgroundPath == Path("reference", "background", "", 0)
AudioPath(idx) == Path("intermediate", "audio", "", idx)
VideoPath(idx) == Path("intermediate", "video", "", idx)
OutputPath == Path("", "output_final", "", 0)

\* Step 3, lines 113-117: the still image of a segment.
ImageForChuyenGiaFirst(visual_desc, refs) ==
  IF Contains("chuyen_gia", visual_desc) THEN refs["chuyen_gia"]
  ELSE IF Contains("nguoi_cao_tuoi", visual_desc) THEN refs["nguoi_cao_tuoi"]
  ELSE BackgroundPath
ImageFor(visual_desc, refs) ==
  IF Contains("nguoi_cao_tuoi", visual_desc) THEN refs["nguoi_cao_tuoi"]
  ELSE IF Contains("chuyen_gia", visual_desc) THEN refs["chuyen_gia"]
  ELSE BackgroundPath

\* Durations an audio clip can report, and where the try block of step 3 can
\* raise: loading the audio, reading its duration, attaching it to the image.
AudioDurations == {5, 8}
FailPoints == {"none", "load", "duration", "attach"}

SolveIdle ==
  /\ api_key_set = FALSE /\ script_exists = FALSE /\ gif_exists = FALSE
  /\ script = <<>> /\ sol_pc = "idle" /\ sol_error = None
  /\ segments = <<>> /\ char_refs = <<>> /\ background_ref = FALSE
  /\ image_requests = 0 /\ seg_i = 0 /\ tts_requests = <<>>
  /\ audio_paths = <<>> /\ video_paths = <<>> /\ video_clips = <<>>
  /\ final_video = Nothing /\ failed_calls = 0

\* The environment of a run.  A run whose configuration is incomplete never
\* reads the script, so those runs are explored with one script only.
SolveInit ==
  /\ api_key_set \in BOOLEAN /\ script_exists \in BOOLEAN /\ gif_exists \in BOOLEAN
  /\ script \in Scripts
  /\ (~api_key_set \/ ~script_exists \/ ~gif_exists) => script = <<>>
  /\ sol_pc = "config" /\ sol_error = None
  /\ segments = <<>> /\ char_refs = <<>> /\ background_ref = FALSE
  /\ image_requests = 0 /\ seg_i = 0 /\ tts_requests = <<>>
  /\ audio_paths = <<>> /\ video_paths = <<>> /\ video_clips = <<>>
  /\ final_video = Nothing /\ failed_calls = 0

\* How a remote call of solve (generate_and_save_chat, synthesize) can end:
\* with its result, or with the HTTPError or ValueError its except clauses
\* raise.  solve has no try around either call: every exception leaves it.
CallOutcomes == {"ok", "HTTPError", "ValueError"}
RaisesTransportOnly(outcome) == outcome = "HTTPError"
Raises(outcome) == outcome # "ok"

\* ServiceConfig(): ValueError when no API key is configured (services/base.py).
SolveConfig ==
  /\ sol_pc = "config"
  /\ IF api_key_set
       THEN sol_pc' = "setup" /\ sol_error' = sol_error
       ELSE sol_pc' = "raised" /\ sol_error' = "ValueError"
  /\ UNCHANGED <<notSolve, api_key_set, script_exists, gif_exists, script, segments,
                 char_refs, background_ref, image_requests, seg_i, tts_requests,
                 audio_paths, video_paths, video_clips, final_video, omVars, failed_calls>>

\* Lines 60-63: the two `if not os.path.exists(...)` tests.
MissingFileScriptOnly(script_ok, gif_ok) == ~script_ok
MissingFile(script_ok, gif_ok) == ~script_ok \/ ~gif_ok

\* Lines 55-63: create_solution_folder(1, ...), then the two os.path.exists tests.
SolveSetup ==
  /\ sol_pc = "setup"
  /\ om_solutions' = CreateSolutionFolder(om_solutions, 1, "Vietnamese Video")
  /\ IF MissingFile(script_exists, gif_exists)
       THEN sol_pc' = "raised" /\ sol_error' = "FileNotFoundError"
       ELSE sol_pc' = "refs" /\ sol_error' = sol_error
  /\ UNCHANGED <<notSolve, api_key_set, script_exists, gif_exists, script, segments,
                 char_refs, background_ref, image_requests, seg_i, tts_requests,
                 audio_paths, video_paths, video_clips, final_video,
                 total_files, total_size_mb, final_copies, metadata_json, failed_calls>>

\* Step 0: one generate_and_save_chat per character, then one for the
\* background; each is one chat-completions request that may raise.
SolveReference ==
  /\ sol_pc = "refs"
  /\ image_requests' = image_requests + 1
  /\ \E outcome \in CallOutcomes :
       IF Raises(outcome)
         THEN /\ sol_pc' = "raised" /\ sol_error' = outcome
              /\ failed_calls' = failed_calls + 1
              /\ UNCHANGED <<char_refs, background_ref>>
         ELSE /\ sol_error' = sol_error
              /\ failed_calls' = failed_calls + (IF outcome = "ok" THEN 0 ELSE 1)
              /\ IF Cardinality(DOMAIN char_refs) < Len(Characters)
                   THEN LET name == Characters[Cardinality(DOMAIN char_refs) + 1]
                        IN /\ char_refs' = DictSet(char_refs, name, RefPath(name))
                           /\ background_ref' = background_ref
                           /\ sol_pc' = sol_pc
                   ELSE /\ background_ref' = TRUE
                        /\ char_refs' = char_refs
                        /\ sol_pc' = "load"
  /\ UNCHANGED <<notSolve, api_key_set, script_exists, gif_exists, script, segments, seg_i,
                 tts_requests, audio_paths, video_paths, video_clips, final_video,
                 omVars>>

\* Step 1: read script.txt and parse it.
SolveLoadScript ==
  /\ sol_pc = "load"
  /\ segments' = ParseSegments(script)
  /\ sol_pc' = "audio" /\ seg_i' = 1
  /\ UNCHANGED <<notSolve, api_key_set, script_exists, gif_exists, script, sol_error,
                 char_refs, background_ref, image_requests, tts_requests,
                 audio_paths, video_paths, video_clips, final_video, omVars, failed_calls>>

\* Step 2, one iteration of `for i in range(1, NUM_SEGMENTS + 1)`.
SolveAudioStep ==
  /\ sol_pc = "audio"
  /\ LET dialogue == SegmentField(segments, seg_i, "dialogue")
         visual_desc == SegmentField(segments, seg_i, "visual")
         voice_name == VoiceFor(visual_desc)
         advance == IF seg_i >= LastIndex
                      THEN sol_pc' = "video" /\ seg_i' = 1
                      ELSE sol_pc' = sol_pc /\ seg_i' = seg_i + 1
     IN IF dialogue # ""
          THEN /\ tts_requests' = Append(tts_requests,
                    [index |-> seg_i, text |-> dialogue, voice_name |-> voice_name])
               /\ \E outcome \in CallOutcomes :
                    IF ~Raises(outcome)
                      THEN /\ audio_paths' = DictSet(audio_paths, seg_i, AudioPath(seg_i))
                           /\ sol_error' = sol_error
                           /\ failed_calls' =
                                failed_calls + (IF outcome = "ok" THEN 0 ELSE 1)
                           /\ advance
                      ELSE /\ sol_pc' = "raised" /\ sol_error' = outcome
                           /\ failed_calls' = failed_calls + 1
                           /\ UNCHANGED <<audio_paths, seg_i>>
          ELSE /\ advance
               /\ UNCHANGED <<tts_requests, audio_paths, sol_error, failed_calls>>
  /\ UNCHANGED <<notSolve, api_key_set, script_exists, gif_exists, script, segments,
                 char_refs, background_ref, image_requests, video_paths,
                 video_clips, final_video, omVars>>

\* `duration` when the clip is built: 8 unless line 126 assigned the audio's.
ClipDuration(has_audio, audio_duration, fail_at) ==
  IF ~has_audio \/ fail_at \in {"load", "duration"}
    THEN DefaultDuration
    ELSE audio_duration

\* Step 3, one iteration: the clip written for index i.
SolveVideoStep ==
  /\ sol_pc = "video"
  /\ LET visual_desc == SegmentField(segments, seg_i, "visual")
         image_path == ImageFor(visual_desc, char_refs)
         has_audio == seg_i \in DOMAIN audio_paths
     IN \E audio_duration \in AudioDurations, fail_at \in FailPoints :
          /\ ~has_audio => (audio_duration = DefaultDuration /\ fail_at = "none")
          /\ fail_at \in {"load", "duration"} => audio_duration = DefaultDuration
          /\ video_clips' = Append(video_clips,
               [index |-> seg_i, path |-> VideoPath(seg_i), image |-> image_path,
                duration |-> ClipDuration(has_audio, audio_duration, fail_at),
                audio |-> (has_audio /\ fail_at = "none"),
                raised |-> (fail_at # "none")])
          /\ video_paths' = Append(video_paths, VideoPath(seg_i))
  /\ IF seg_i >= LastIndex
       THEN sol_pc' = "concat" /\ seg_i' = seg_i
       ELSE sol_pc' = sol_pc /\ seg_i' = seg_i + 1
  /\ UNCHANGED <<notSolve, api_key_set, script_exists, gif_exists, script, sol_error,
                 segments, char_refs, background_ref, image_requests,
                 tts_requests, audio_paths, final_video, omVars, failed_calls>>

\* Step 4: ValueError when no clip was written; else concatenate, overlay the
\* GIF and encode output_final.mp4 (of some size).
SolveConcat ==
  /\ sol_pc = "concat"
  /\ IF video_paths = <<>>
       THEN /\ sol_pc' = "raised" /\ sol_error' = "ValueError"
            /\ final_video' = final_video
       ELSE /\ \E size \in 1..MaxFileSize :
                 final_video' = Some([path |-> OutputPath, clips |-> video_paths,
                                      size |-> size])
            /\ sol_pc' = "save_final" /\ sol_error' = sol_error
  /\ UNCHANGED <<notSolve, api_key_set, script_exists, gif_exists, script, segments,
                 char_refs, background_ref, image_requests, seg_i, tts_requests,
                 audio_paths, video_paths, video_clips, omVars, failed_calls>>

\* output_mgr.save_final_file(output_path, 1, "Video", "video"): two copies (either
\* may raise), then the step and the running totals.
SolveSaveFinal ==
  /\ sol_pc = "save_final"
  /\ \E copies \in 0..2 :
       LET solution_folder == GetSolutionFolder(om_solutions, 1)
           file_size == final_video[1].size
       IN /\ final_copies' = final_copies \cup CopiedFiles(solution_folder, copies)
          /\ IF copies = 2
               THEN /\ om_solutions' = AddStep(om_solutions, 1,
                         FinalStep(solution_folder, file_size, "video"))
                    /\ total_files' = total_files + 1
                    /\ total_size_mb' = total_size_mb + SizeMb(file_size)
                    /\ sol_pc' = "save_meta" /\ sol_error' = sol_error
               ELSE /\ sol_pc' = "raised" /\ sol_error' = "OSError"
                    /\ UNCHANGED <<om_solutions, total_files, total_size_mb>>
  /\ UNCHANGED <<notSolve, api_key_set, script_exists, gif_exists, script, segments,
                 char_refs, background_ref, image_requests, seg_i, tts_requests,
                 audio_paths, video_paths, video_clips, final_video, metadata_json, failed_calls>>

\* output_mgr.save_metadata(...): writes metadata.json, or reports that it
\* could not; it adds no step and never raises.  solve then returns final_path.
SolveSaveMetadata ==
  /\ sol_pc = "save_meta"
  /\ \E written \in BOOLEAN : metadata_json' = written
  /\ sol_pc' = "done"
  /\ UNCHANGED <<notSolve, api_key_set, script_exists, gif_exists, script, sol_error,
                 segments, char_refs, background_ref, image_requests, seg_i,
                 tts_requests, audio_paths, video_paths, video_clips, final_video,
                 om_solutions, total_files, total_size_mb, final_copies, failed_calls>>

SolveNext ==
  \/ SolveConfig
  \/ SolveSetup
  \/ SolveReference
  \/ SolveLoadScript
  \/ SolveAudioStep
  \/ SolveVideoStep
  \/ SolveConcat
  \/ SolveSaveFinal
  \/ SolveSaveMetadata

\* ===========================================================================
\* generate_podcast.py
\* ===========================================================================

\* VOICES (diacritics dropped, letter case kept)
VOICES == [x \in {"Chuyen gia Lan", "ba Nhung"} |->
             IF x = "Chuyen gia Lan" THEN "achernar" ELSE "gacrux"]

\* The speaker names of the regular expression of parse_script, line 33.
PatternSpeakers == {"Chuyen gia lan", "Ba Nhung"}

\* Speakers a list of dialogue lines can name, and utterances (never empty:
\* parse_script keeps a line only `if cleaned_dialogue`).
Speakers == DOMAIN VOICES \cup PatternSpeakers
Texts == {"xin chao", "cam on"}
DialogueLines == [speaker : Speakers, text : Texts]

\* VOICES.get(speaker)
VoiceNameDefault(speaker) ==
  IF speaker \in DOMAIN VOICES THEN Some(VOICES[speaker]) ELSE Some("achernar")
VoiceName(speaker) ==
  IF speaker \in DOMAIN VOICES THEN Some(VOICES[speaker]) ELSE Nothing

\* `if not dialogues`: None (script file missing) or the empty list.
NoDialoguesNoneOnly(d) == d = Nothing
NoDialogues(d) == d = Nothing \/ d[1] = <<>>

\* Paths under TEMP_DIR; line indices are those of enumerate(), from 0.
SilenceStartPath == Path("temp_audio_chunks", "silence_start", "", 0)
ChunkPath(idx) == Path("temp_audio_chunks", "chunk", "", idx)
SilencePath(idx) == Path("temp_audio_chunks", "silence", "", idx)

\* Frames of the silences: 24000 and 36000 zero bytes at 2 bytes per frame.
SampleWidth == 2
SilenceStartFrames == 24000 \div SampleWidth
SilenceGapFrames == 36000 \div SampleWidth

\* What one generate_audio_chunk call can meet:
\*   "ok"         a well-formed response: the chunk is written, True
\*   "transport"  RequestException: False
\*   "absent"     a key or list element is missing (KeyError, IndexError): False
\*   "empty"      inlineData.data is "": b64decode gives b"", a WAV of no
\*                frames is written, True
\*   "null"       a field is null: TypeError, which no except clause catches
ChunkOutcomes == {"ok", "transport", "absent", "empty", "null"}

\* The frames combine_wav_files writes for the input files it gets through:
\* `for file_path in input_files: outfile.writeframes(infile.readframes(
\* infile.getnframes()))`.
SumFramesFirstOnly(files, paths) ==
  IF paths = <<>> THEN 0 ELSE files[Head(paths)]
RECURSIVE SumFrames(_, _)
SumFrames(files, paths) ==
  IF paths = <<>> THEN 0
  ELSE files[Head(paths)] + SumFrames(files, Tail(paths))

\* How combine_wav_files can go: the output cannot be opened (-1), or `copied`
\* input files are written before an exception ends the loop; every exception
\* is caught and printed, and the output file is closed with what it holds.
CombineOutcomes(input_files) == -1..Len(input_files)

PodIdle ==
  /\ pod_pc = "idle" /\ pod_error = None /\ dialogues = Nothing
  /\ temp_dir = FALSE /\ wav_files = <<>> /\ line_i = 0 /\ audio_files = <<>>
  /\ synth_requests = <<>> /\ output_wav = Nothing /\ reported = "none"
  /\ chunk_results = <<>> /\ combine_error = FALSE

\* What an earlier run can have left under TEMP_DIR: a chunk of a line this
\* run does not have.
StalePath == ChunkPath(MaxLines)
StaleFiles == DictSet(<<>>, StalePath, 1)

\* main is entered with or without a stale TEMP_DIR (empty, or holding a
\* file); parse_script(SCRIPT_FILE) gives None or a list of lines.
PodInit ==
  /\ pod_pc = "start" /\ pod_error = None
  /\ dialogues \in {Nothing} \cup {Some(d) : d \in SeqsUpTo(DialogueLines, MaxLines)}
  /\ temp_dir \in BOOLEAN
  /\ wav_files \in (IF temp_dir THEN {<<>>, StaleFiles} ELSE {<<>>})
  /\ line_i = 0 /\ audio_files = <<>>
  /\ synth_requests = <<>> /\ output_wav = Nothing /\ reported = "none"
  /\ chunk_results = <<>> /\ combine_error = FALSE

\* Lines 122-141: shutil.rmtree(TEMP_DIR) if it exists, os.makedirs(TEMP_DIR),
\* parse, return early without dialogues, else write the initial silence.
MainStart ==
  /\ pod_pc = "start"
  /\ temp_dir' = TRUE
  /\ IF NoDialogues(dialogues)
       THEN /\ reported' = "no dialogues"
            /\ pod_pc' = "returned"
            /\ wav_files' = <<>>
            /\ audio_files' = audio_files
       ELSE /\ reported' = "found"
            /\ wav_files' = DictSet(<<>>, SilenceStartPath, SilenceStartFrames)
            /\ audio_files' = Append(audio_files, SilenceStartPath)
            /\ pod_pc' = "loop"
  /\ UNCHANGED <<notPod, pod_error, dialogues, line_i, synth_requests, output_wav,
                 chunk_results, combine_error>>

\* Lines 143-162: one iteration of `for i, dialogue in enumerate(dialogues)`.
MainLine ==
  /\ pod_pc = "loop"
  /\ line_i < Len(dialogues[1])
  /\ LET i == line_i
         speaker == dialogues[1][i + 1].speaker
         text == dialogues[1][i + 1].text
         voice_name == VoiceName(speaker)
     IN IF voice_name = Nothing
          THEN \* warning, `continue`
               /\ line_i' = line_i + 1
               /\ UNCHANGED <<pod_pc, pod_error, wav_files, audio_files, synth_requests,
                              chunk_results>>
          ELSE /\ synth_requests' = Append(synth_requests,
                     [i |-> i, text |-> text, voice_name |-> voice_name[1]])
               /\ \E outcome \in ChunkOutcomes, frames \in 1..MaxChunkFrames :
                    /\ outcome # "ok" => frames = 1
                    /\ chunk_results' =
                         IF outcome = "null" THEN chunk_results
                         ELSE Append(chunk_results,
                                [i |-> i, returned |-> outcome \in {"ok", "empty"},
                                 frames |-> IF outcome = "ok" THEN frames ELSE 0])
                    /\ CASE outcome \in {"ok", "empty"} ->
                              /\ wav_files' =
                                   DictSet(DictSet(wav_files, ChunkPath(i),
                                                   IF outcome = "ok" THEN frames ELSE 0),
                                           SilencePath(i), SilenceGapFrames)
                              /\ audio_files' = audio_files \o <<ChunkPath(i), SilencePath(i)>>
                              /\ line_i' = line_i + 1
                              /\ UNCHANGED <<pod_pc, pod_error>>
                         [] outcome \in {"transport", "absent"} ->
                              /\ line_i' = line_i + 1
                              /\ UNCHANGED <<pod_pc, pod_error, wav_files, audio_files>>
                         [] outcome = "null" ->
                              /\ pod_pc' = "raised" /\ pod_error' = "TypeError"
                              /\ UNCHANGED <<line_i, wav_files, audio_files>>
  /\ UNCHANGED <<notPod, dialogues, temp_dir, output_wav, reported, combine_error>>

\* Lines 164-172: combine_wav_files(audio_files, OUTPUT_FILE), then
\* shutil.rmtree(TEMP_DIR).
MainFinish ==
  /\ pod_pc = "loop"
  /\ line_i >= Len(dialogues[1])
  /\ IF audio_files = <<>>
       THEN UNCHANGED <<output_wav, combine_error>>
       ELSE \E copied \in CombineOutcomes(audio_files) :
              /\ output_wav' =
                   IF copied = -1 THEN output_wav
                   ELSE Some(SumFrames(wav_files, SubSeq(audio_files, 1, copied)))
              /\ combine_error' = (copied < Len(audio_files))
  /\ temp_dir' = FALSE /\ wav_files' = <<>>
  /\ pod_pc' = "returned"
  /\ UNCHANGED <<notPod, pod_error, dialogues, line_i, audio_files,
                 synth_requests, reported, chunk_results>>

PodNext ==
  \/ MainStart
  \/ MainLine
  \/ MainFinish

\* ===========================================================================
\* services/image_service.py, services/image_service_enhanced.py: generate
\* ===========================================================================

ImageServices == {"ImageService", "EnhancedImageService"}

\* How a POST can end: status 200, no response at all (requests raises
\* ConnectionError), an error status (4xx, 5xx), or another success status
\* (201..299).
PostOutcomes == {"200", "connection_error", "error_status", "success_not_200"}

\* body: prompt, model, n, and aspect_ratio if given, else size if given.
PrimaryBody(args) ==
  [shape |-> "primary", n |-> <<"int", args.n>>,
   aspect_ratio |-> args.aspect_ratio,
   size |-> IF args.aspect_ratio # "" THEN "" ELSE args.size,
   extra_body |-> Nothing]

\* try_body: n as a string, aspect_ratio or size under extra_body.
AlternateBody(args) ==
  [shape |-> "alternate", n |-> <<"str", args.n>>,
   aspect_ratio |-> "", size |-> "",
   extra_body |-> Some([aspect_ratio |-> args.aspect_ratio,
                        size |-> IF args.aspect_ratio # "" THEN "" ELSE args.size])]

\* What the first POST's outcome leads to: "return", "retry", or the exception.
\*   ImageService:          requests.post is not guarded, so a connection error
\*                          propagates; only `resp.status_code == 200` returns.
\*   EnhancedImageService:  post and raise_for_status sit in a try whose
\*                          `except RequestException` retries.
AfterFirst(service, outcome) ==
  IF service = "ImageService"
    THEN CASE outcome = "200" -> "return"
           [] outcome = "connection_error" -> "ConnectionError"
           [] OTHER -> "retry"
    ELSE CASE outcome \in {"200", "success_not_200"} -> "return"
           [] OTHER -> "retry"

\* What the second POST's outcome leads to.
AfterSecond(service, outcome) ==
  IF service = "ImageService"
    THEN CASE outcome = "200" -> "return"
           [] outcome = "connection_error" -> "ConnectionError"
           [] OTHER -> "HTTPError"
    ELSE CASE outcome \in {"200", "success_not_200"} -> "return"
           [] outcome = "connection_error" -> "ConnectionError"
           [] OTHER -> "HTTPError"

ImgIdle ==
  /\ img_service = None /\ img_args = Nothing /\ img_pc = "idle"
  /\ img_requests = <<>> /\ img_responses = <<>> /\ img_error = None

ImgInit ==
  /\ img_service \in ImageServices
  /\ img_args \in { Some(a) : a \in [n : 1..MaxImages, size : {"", "1024x1024"},
                                     aspect_ratio : {"", "16:9"}] }
  /\ img_pc = "first"
  /\ img_requests = <<>> /\ img_responses = <<>> /\ img_error = None

GenerateFirst ==
  /\ img_pc = "first"
  /\ img_requests' = Append(img_requests, PrimaryBody(img_args[1]))
  /\ \E outcome \in PostOutcomes :
       /\ img_responses' = Append(img_responses, outcome)
       /\ LET next == AfterFirst(img_service, outcome)
          IN CASE next = "return" -> img_pc' = "returned" /\ img_error' = img_error
               [] next = "retry" -> img_pc' = "second" /\ img_error' = img_error
               [] OTHER -> img_pc' = "raised" /\ img_error' = next
  /\ UNCHANGED <<notImg, img_service, img_args>>

GenerateSecond ==
  /\ img_pc = "second"
  /\ img_requests' = Append(img_requests, AlternateBody(img_args[1]))
  /\ \E outcome \in PostOutcomes :
       /\ img_responses' = Append(img_responses, outcome)
       /\ LET next == AfterSecond(img_service, outcome)
          IN CASE next = "return" -> img_pc' = "returned" /\ img_error' = img_error
               [] OTHER -> img_pc' = "raised" /\ img_error' = next
  /\ UNCHANGED <<notImg, img_service, img_args>>

ImgNext ==
  \/ GenerateFirst
  \/ GenerateSecond

\* ===========================================================================
\* Response unwrapping: TTSService.synthesize, synthesize_multi_speaker,
\* EnhancedImageService.generate_via_chat, VeoVideoService.download,
\* generate_podcast.generate_audio_chunk
\* ===========================================================================

UnwrapOps == {"synthesize", "synthesize_multi_speaker", "generate_via_chat",
              "download", "generate_audio_chunk"}

\* Each operation reads one value through five nested fields:
\*   synthesize*, generate_audio_chunk:
\*       candidates[0] . content . parts[0] . inlineData . data
\*   generate_via_chat:   choices[0] . message . images[0] . image_url . url
\*   download:  response . generateVideoResponse . generatedSamples[0] . video . uri
ChainDepth == 5

\* The kind of value at each level of the speech response.
SpeechKinds == <<"list", "dict", "list", "dict", "str">>

\* A decoded body: well-formed (defect_at = 0), or with its first defect at
\* level defect_at, the field there being absent or empty.
UnwrapBodies ==
  {[defect_at |-> 0, defect |-> "none"]} \cup
  [defect_at : 1..ChainDepth, defect : {"absent", "empty"}]

\* The .get(key, default) / `if not x: raise ValueError` chains of synthesize,
\* synthesize_multi_speaker, generate_via_chat and download: an absent field
\* reads as the empty default, and every empty value raises ValueError.
GetChain(body) ==
  IF body.defect_at = 0 THEN "value" ELSE "ValueError"

\* response_json['candidates'][0]['content']['parts'][0]['inlineData']['data']
\* in generate_audio_chunk: an absent key is a KeyError, an empty list an
\* IndexError, an empty dict a KeyError at the next subscript, and an empty
\* string is returned as it is.
SubscriptChain(body) ==
  CASE body.defect_at = 0 -> "value"
    [] body.defect = "absent" -> "KeyError"
    [] SpeechKinds[body.defect_at] = "list" -> "IndexError"
    [] SpeechKinds[body.defect_at] = "dict" -> "KeyError"
    [] OTHER -> "empty value"

UnwIdle ==
  /\ unw_op = None /\ unw_body = Nothing /\ unw_pc = "idle" /\ unw_requests = 0
  /\ unw_decoded = FALSE
  /\ unw_result = Nothing /\ unw_error = None /\ unw_file = FALSE

UnwInit ==
  /\ unw_op \in UnwrapOps
  /\ unw_body \in {Some(b) : b \in UnwrapBodies}
  /\ unw_pc = "request" /\ unw_requests = 0 /\ unw_decoded = FALSE
  /\ unw_result = Nothing /\ unw_error = None /\ unw_file = FALSE

\* The request whose decoded body is unwrapped: the operation's own POST, or,
\* for download, the status GET that produced its status_response argument.
\* A failed request raises HTTPError, except in generate_audio_chunk, which
\* catches RequestException and returns False.
UnwrapRequest ==
  /\ unw_pc = "request"
  /\ unw_requests' = unw_requests + 1
  /\ \E ok \in BOOLEAN :
       /\ unw_decoded' = ok
       /\ IF ok THEN /\ unw_pc' = "unwrap"
                     /\ UNCHANGED <<unw_result, unw_error>>
          ELSE IF unw_op = "generate_audio_chunk"
            THEN /\ unw_pc' = "returned" /\ unw_result' = Some(FALSE)
                 /\ unw_error' = unw_error
            ELSE /\ unw_pc' = "raised" /\ unw_error' = "HTTPError"
                 /\ unw_result' = unw_result
  /\ UNCHANGED <<notUnw, unw_op, unw_body, unw_file>>

\* The unwrapping of the body and what follows it.
UnwrapBody ==
  /\ unw_pc = "unwrap"
  /\ CASE unw_op \in {"synthesize", "synthesize_multi_speaker", "generate_via_chat"} ->
            \* the decoded bytes are returned; ValueError is re-raised as ValueError
            /\ IF GetChain(unw_body[1]) = "value"
                 THEN /\ unw_pc' = "returned" /\ unw_result' = Some("bytes")
                      /\ unw_error' = unw_error
                 ELSE /\ unw_pc' = "raised" /\ unw_error' = GetChain(unw_body[1])
                      /\ unw_result' = unw_result
            /\ UNCHANGED <<unw_requests, unw_file>>
       [] unw_op = "download" ->
            IF GetChain(unw_body[1]) = "value"
              THEN \* the download GET
                   /\ unw_requests' = unw_requests + 1
                   /\ \E ok \in BOOLEAN :
                        IF ok THEN /\ unw_pc' = "returned" /\ unw_file' = TRUE
                                   /\ unw_result' = Some("output_path")
                                   /\ unw_error' = unw_error
                              ELSE /\ unw_pc' = "raised" /\ unw_error' = "HTTPError"
                                   /\ UNCHANGED <<unw_result, unw_file>>
              ELSE /\ unw_pc' = "raised" /\ unw_error' = GetChain(unw_body[1])
                   /\ UNCHANGED <<unw_requests, unw_result, unw_file>>
       [] unw_op = "generate_audio_chunk" ->
            /\ IF SubscriptChain(unw_body[1]) \in {"value", "empty value"}
                 THEN \* the WAV file is written (with no frames for ""): True
                      /\ unw_file' = TRUE /\ unw_result' = Some(TRUE)
                 ELSE \* except (KeyError, IndexError): return False
                      /\ unw_file' = unw_file /\ unw_result' = Some(FALSE)
            /\ unw_pc' = "returned"
            /\ UNCHANGED <<unw_requests, unw_error>>
  /\ UNCHANGED <<notUnw, unw_op, unw_body, unw_decoded>>

UnwNext ==
  \/ UnwrapRequest
  \/ UnwrapBody

\* ===========================================================================
\* solution.py parse_segments, on the text of the script
\* ===========================================================================

\* The script text as a sequence of tokens: a header "[Segment <digits>...]",
\* the labels "Visual:" and "Dialogue:", a run of whitespace, a word.
Header(digits) == [kind |-> "header", digits |-> digits, w |-> ""]
VisualLabel == [kind |-> "Visual:", digits |-> <<>>, w |-> ""]
DialogueLabel == [kind |-> "Dialogue:", digits |-> <<>>, w |-> ""]
Space == [kind |-> "space", digits |-> <<>>, w |-> ""]
Word(w) == [kind |-> "word", digits |-> <<>>, w |-> w]

\* int(m[0]) of the digits `(\d+)` captured.
RECURSIVE IntOf(_)
IntOf(digits) ==
  IF digits = <<>> THEN 0
  ELSE 10 * IntOf(SubSeq(digits, 1, Len(digits) - 1)) + digits[Len(digits)]

\* str.strip(): the text without its leading and trailing whitespace.
StripLeft(text) ==
  LET keep == {k \in 1..Len(text) : text[k].kind # "space"}
  IN IF keep = {} THEN <<>>
     ELSE SubSeq(text, CHOOSE k \in keep : \A j \in keep : k <= j, Len(text))
Strip(text) ==
  LET keep == {k \in 1..Len(text) : text[k].kind # "space"}
  IN IF keep = {} THEN <<>>
     ELSE SubSeq(text, CHOOSE k \in keep : \A j \in keep : k <= j,
                       CHOOSE k \in keep : \A j \in keep : k >= j)

\* `\s*` from position k: the first position at or after k that holds no
\* whitespace (Len + 1 at the end of the text).
SkipSpaces(toks, k) ==
  CHOOSE j \in k..(Len(toks) + 1) :
    /\ \A i \in k..(j - 1) : toks[i].kind = "space"
    /\ j <= Len(toks) => toks[j].kind # "space"

\* The least element of a set of positions, 0 for the empty set.
First(S) == IF S = {} THEN 0 ELSE CHOOSE k \in S : \A j \in S : k <= j

\* `.*?\]\s*Visual:` from a header at p, DOTALL: the nearest "]" at or after p
\* that only whitespace separates from a "Visual:" label.
BracketBeforeVisual(toks, p) ==
  First({b \in p..Len(toks) :
           /\ toks[b].kind = "header"
           /\ SkipSpaces(toks, b + 1) <= Len(toks)
           /\ toks[SkipSpaces(toks, b + 1)].kind = "Visual:"})

\* `(.*?)\s*Dialogue:` from position k: the nearest "Dialogue:" label.
NextDialogueLabel(toks, k) ==
  First({c \in k..Len(toks) : toks[c].kind = "Dialogue:"})

\* `(.*?)(?=\[Segment|\Z)` from position k: the nearest header, or the end.
NextHeaderOrEnd(toks, k) ==
  LET d == First({h \in k..Len(toks) : toks[h].kind = "header"})
  IN IF d = 0 THEN Len(toks) + 1 ELSE d

\* re.findall(pattern, script, re.DOTALL) scanning from position p, each match
\* with int(m[0]), m[1].strip() and m[2].strip() applied.
RECURSIVE FindAll(_, _)
FindAll(toks, p) ==
  IF p > Len(toks) THEN <<>>
  ELSE IF toks[p].kind # "header" THEN FindAll(toks, p + 1)
  ELSE LET b == BracketBeforeVisual(toks, p)
           vs == SkipSpaces(toks, SkipSpaces(toks, b + 1) + 1)
           c == IF b = 0 THEN 0 ELSE NextDialogueLabel(toks, vs)
           ds == SkipSpaces(toks, c + 1)
           d == NextHeaderOrEnd(toks, ds)
       IN IF b = 0 \/ c = 0 THEN FindAll(toks, p + 1)
          ELSE <<[index |-> IntOf(toks[p].digits),
                  visual |-> Strip(SubSeq(toks, vs, c - 1)),
                  dialogue |-> Strip(SubSeq(toks, ds, d - 1))]>>
               \o FindAll(toks, d)

\* The numbers, field texts and paddings a segment block of a script is
\* written with.  A field is absent (no label), or its label followed by the
\* text, with or without whitespace around it.
BlockNumbers == {<<1>>, <<2>>, <<0, 1>>}
FieldTexts == {<<>>, <<Word("a"), Space, Word("b")>>}
AbsentField == [present |-> FALSE, text |-> <<>>, padded |-> FALSE]
Fields == {AbsentField} \cup [present : {TRUE}, text : FieldTexts, padded : BOOLEAN]
TextBlocks == [digits : BlockNumbers, visual : Fields, dialogue : Fields]

\* The text of one field and of one block.
RenderField(label, field) ==
  IF ~field.present THEN <<>>
  ELSE IF field.padded THEN <<label, Space>> \o field.text \o <<Space>>
  ELSE <<label>> \o field.text
RenderBlock(block) ==
  <<Header(block.digits)>> \o (IF block.visual.padded THEN <<Space>> ELSE <<>>)
    \o RenderField(VisualLabel, block.visual)
    \o RenderField(DialogueLabel, block.dialogue)

RECURSIVE RenderScript(_)
RenderScript(blocks) ==
  IF blocks = <<>> THEN <<>>
  ELSE RenderBlock(Head(blocks)) \o RenderScript(Tail(blocks))

PsIdle ==
  /\ ps_blocks = <<>> /\ ps_script = <<>> /\ ps_pc = "idle" /\ ps_result = <<>>

PsInit ==
  /\ ps_blocks \in SeqsUpTo(TextBlocks, MaxTextBlocks)
  /\ ps_script = RenderScript(ps_blocks)
  /\ ps_pc = "call" /\ ps_result = <<>>

\* parse_segments(script)
ParseSegmentsCall ==
  /\ ps_pc = "call"
  /\ ps_result' = ParseSegments(FindAll(ps_script, 1))
  /\ ps_pc' = "returned"
  /\ UNCHANGED <<notPs, ps_blocks, ps_script>>

PsNext ==
  \/ ParseSegmentsCall

\* ===========================================================================
\* generate_podcast.py parse_script
\* ===========================================================================

\* An utterance is a text of words, whitespace and parentheses.
Open == [kind |-> "(", digits |-> <<>>, w |-> ""]
Close == [kind |-> ")", digits |-> <<>>, w |-> ""]

\* The least and the greatest element of a non-empty set of positions.
Least(S) == CHOOSE k \in S : \A j \in S : k <= j
Greatest(S) == CHOOSE k \in S : \A j \in S : k >= j

\* dialogue_pattern.match(line), line 33: the bullet "*   **Lời thoại (" and
\* one of the two speaker names of the pattern, compared letter case included.
LineMatches(line) == line.speaker \in PatternSpeakers

\* re.sub(r'^\(.*\)\s*', '', dialogue_text): when the text starts with "(", the
\* greedy `.*\)` runs to the last ")" of the text; the whitespace after it goes
\* too.  A text with no such start is returned as it is.
CleanDialogue(text) ==
  LET closing == {k \in 2..Len(text) : text[k].kind = ")"}
  IN IF text # <<>> /\ text[1].kind = "(" /\ closing # {}
       THEN SubSeq(text, SkipSpaces(text, Greatest(closing) + 1), Len(text))
       ELSE text

\* Lines 34-43: the entries of the lines, in order.
RECURSIVE ParseLines(_)
ParseLines(lines) ==
  IF lines = <<>> THEN <<>>
  ELSE LET line == Head(lines)
           speaker == line.speaker
           dialogue_text == Strip(line.utterance)
           cleaned_dialogue == CleanDialogue(dialogue_text)
       IN (IF LineMatches(line) /\ cleaned_dialogue # <<>>
             THEN <<[speaker |-> speaker, text |-> cleaned_dialogue]>>
             ELSE <<>>)
          \o ParseLines(Tail(lines))

\* The utterances of a script line: a stage direction (none, "(w)", or an
\* unclosed "(w"), whitespace or none, and the spoken text.
Directions == {<<>>, <<Open, Word("w"), Close>>, <<Open, Word("w")>>}
Gaps == {<<>>, <<Space>>}
Spoken == {<<>>, <<Word("a")>>,
           <<Word("a"), Space, Open, Word("v"), Close>>,
           <<Word("a"), Space, Open, Word("v"), Close, Space, Word("b")>>}
Utterances == {d \o g \o sp : d \in Directions, g \in Gaps, sp \in Spoken}

\* A bullet line "*   **Lời thoại (<speaker>):** <utterance>".
FileLines == [speaker : Speakers, utterance : Utterances]

ScIdle == sc_lines = Nothing /\ sc_pc = "idle" /\ sc_result = Nothing

ScInit ==
  /\ sc_lines \in {Nothing} \cup {Some(l) : l \in SeqsUpTo(FileLines, MaxFileLines)}
  /\ sc_pc = "call" /\ sc_result = Nothing

\* parse_script(file_path): None when the file is not found.
ParseScriptCall ==
  /\ sc_pc = "call"
  /\ sc_result' = IF sc_lines = Nothing THEN Nothing
                  ELSE Some(ParseLines(sc_lines[1]))
  /\ sc_pc' = "returned"
  /\ UNCHANGED <<notSc, sc_lines>>

ScNext ==
  \/ ParseScriptCall

\* ===========================================================================
\* The path strings of the working files: solution.py solve (lines 72, 78,
\* 102, 142, 171) and generate_podcast.py main (lines 137, 154, 158)
\* ===========================================================================

\* A path string is kept as its sequence of pieces: each run of letters, each
\* separator ("/", "_", ".") and each digit is one piece, so that two path
\* strings are equal exactly when their sequences are.
DigitChars == <<"0", "1", "2", "3", "4", "5", "6", "7", "8", "9">>

\* str(i) in an f-string
DigitsLast(i) == <<DigitChars[(i % 10) + 1]>>
RECURSIVE Digits(_)
Digits(i) ==
  IF i < 10 THEN <<DigitChars[i + 1]>>
  ELSE Digits(i \div 10) \o <<DigitChars[(i % 10) + 1]>>

\* The pieces of the literals of the f-strings.
Pieces(literal) ==
  CASE literal = "reference" -> <<"reference">>
    [] literal = "intermediate" -> <<"intermediate">>
    [] literal = "temp_audio_chunks" -> <<"temp", "_", "audio", "_", "chunks">>
    [] literal = "character" -> <<"character">>
    [] literal = "background" -> <<"background">>
    [] literal = "audio" -> <<"audio">>
    [] literal = "video" -> <<"video">>
    [] literal = "output_final" -> <<"output", "_", "final">>
    [] literal = "silence_start" -> <<"silence", "_", "start">>
    [] literal = "chunk" -> <<"chunk">>
    [] literal = "silence" -> <<"silence">>
    [] literal = "nguoi_cao_tuoi" -> <<"nguoi", "_", "cao", "_", "tuoi">>
    [] literal = "chuyen_gia" -> <<"chuyen", "_", "gia">>

\* The extension each kind of file is written with.
Extension(stem) ==
  CASE stem \in {"character", "background"} -> "png"
    [] stem = "audio" -> "mp3"
    [] stem \in {"video", "output_final"} -> "mp4"
    [] stem \in {"silence_start", "chunk", "silence"} -> "wav"

\* The stems that are followed by "_{i}".
Indexed(stem) == stem \in {"audio", "video", "chunk", "silence"}

\* The path string of a file: f"{folder}/<dir>/<stem>[_<name>][_<i>].<ext>" in
\* solve, os.path.join(TEMP_DIR, f"<stem>[_<i>].wav") in main.
PathString(path) ==
  (IF path.dir = "temp_audio_chunks" THEN Pieces(path.dir) \o <<"/">>
   ELSE IF path.dir = "" THEN <<"{folder}", "/">>
   ELSE <<"{folder}", "/">> \o Pieces(path.dir) \o <<"/">>)
  \o Pieces(path.stem)
  \o (IF path.name # "" THEN <<"_">> \o Pieces(path.name) ELSE <<>>)
  \o (IF Indexed(path.stem) THEN <<"_">> \o Digits(path.n) ELSE <<>>)
  \o <<".", Extension(path.stem)>>

\* The working files of a run of solve and of a run of main: what the file
\* holds, and the character or the index it is written for.
SolveFiles ==
  {[program |-> "solve", holds |-> "character", name |-> Characters[k], i |-> 0] :
     k \in 1..Len(Characters)}
  \cup {[program |-> "solve", holds |-> h, name |-> "", i |-> 0] :
          h \in {"background", "output_final"}}
  \cup [program : {"solve"}, holds : {"audio", "video"}, name : {""},
        i : 1..NUM_SEGMENTS]
MainFiles ==
  {[program |-> "main", holds |-> "silence_start", name |-> "", i |-> 0]}
  \cup [program : {"main"}, holds : {"chunk", "silence"}, name : {""},
        i : 0..(MaxLines - 1)]

\* The path the code builds for a file.
PathOf(file) ==
  CASE file.holds = "character" -> RefPath(file.name)
    [] file.holds = "background" -> BackgroundPath
    [] file.holds = "audio" -> AudioPath(file.i)
    [] file.holds = "video" -> VideoPath(file.i)
    [] file.holds = "output_final" -> OutputPath
    [] file.holds = "silence_start" -> SilenceStartPath
    [] file.holds = "chunk" -> ChunkPath(file.i)
    [] file.holds = "silence" -> SilencePath(file.i)

PaIdle == pa_files = <<>> /\ pa_pc = "idle" /\ pa_names = <<>>

\* Two working files of the same run.
PaInit ==
  /\ pa_files \in (SolveFiles \X SolveFiles) \cup (MainFiles \X MainFiles)
  /\ pa_pc = "assign" /\ pa_names = <<>>

AssignPaths ==
  /\ pa_pc = "assign"
  /\ pa_names' = <<PathString(PathOf(pa_files[1])), PathString(PathOf(pa_files[2]))>>
  /\ pa_pc' = "assigned"
  /\ UNCHANGED <<notPa, pa_files>>

PaNext ==
  \/ AssignPaths


\* ===========================================================================
\* output_manager.py: one OutputManager driven through its public methods
\* ===========================================================================

SolutionNumbers == {1, 2}

\* The file handed to save_final_file: missing, or of some size in bytes.
SourceFiles == {Nothing} \cup {Some(size) : size \in 1..MaxFileSize}

\* Solution folders earlier runs on the same base_dir may have left on disk
\* (the run record is not persisted; the directories are).
LeftFolders ==
  {SolutionFolder(n, name) : n \in SolutionNumbers, name \in SolutionNames}

NoCall == [k |-> 0, op |-> "none", solution_number |-> 0, result |-> "none"]
Call(op, solution_number, result) ==
  [k |-> om_last.k + 1, op |-> op, solution_number |-> solution_number,
   result |-> result]

OmcIdle == om_pc = "idle" /\ om_dirs = {} /\ om_last = NoCall

\* OutputManager(): a fresh run record over whatever the disk holds.
OmcInit == om_pc = "ready" /\ om_dirs \in SUBSET LeftFolders /\ om_last = NoCall

\* create_solution_folder(solution_number, solution_name): the mkdir calls of
\* lines 36-37 (exist_ok, they may still raise OSError), then the registration.
CreateSolutionFolderCall ==
  /\ om_pc = "ready" /\ om_last.k < MaxCalls
  /\ \E solution_number \in SolutionNumbers, solution_name \in SolutionNames,
        made \in BOOLEAN :
       IF made
         THEN /\ om_dirs' = om_dirs \cup {SolutionFolder(solution_number, solution_name)}
              /\ om_solutions' =
                   CreateSolutionFolder(om_solutions, solution_number, solution_name)
              /\ om_last' = Call("create", solution_number, "returned")
         ELSE /\ om_last' = Call("create", solution_number, "raised")
              /\ UNCHANGED <<om_dirs, om_solutions>>
  /\ UNCHANGED <<notOm, om_pc, total_files, total_size_mb, final_copies, metadata_json>>

\* save_final_file(file_path, solution_number, ...), lines 57-92.  A copy fails
\* when the source is missing or the folder has no final/ directory (an
\* unregistered number resolves to "<key>_unknown"), and may fail otherwise.
SaveFinalFileCall ==
  /\ om_pc = "ready" /\ om_last.k < MaxCalls
  /\ \E solution_number \in SolutionNumbers, file \in SourceFiles, copies \in 0..2 :
       LET solution_folder == GetSolutionFolder(om_solutions, solution_number)
       IN /\ (file = Nothing \/ solution_folder \notin om_dirs) => copies = 0
          /\ final_copies' = final_copies \cup CopiedFiles(solution_folder, copies)
          /\ IF copies = 2
               THEN /\ om_solutions' = AddStep(om_solutions, solution_number,
                         FinalStep(solution_folder, file[1], "video"))
                    /\ total_files' = total_files + 1
                    /\ total_size_mb' = total_size_mb + SizeMb(file[1])
                    /\ om_last' = Call("save", solution_number, "returned")
               ELSE /\ om_last' = Call("save", solution_number, "raised")
                    /\ UNCHANGED <<om_solutions, total_files, total_size_mb>>
  /\ UNCHANGED <<notOm, om_pc, om_dirs, metadata_json>>

OmcNext ==
  \/ CreateSolutionFolderCall
  \/ SaveFinalFileCall

\* ===========================================================================
\* Specifications
\* ===========================================================================

InitVeo == VeoInit /\ SolveIdle /\ OmInit /\ OmcIdle /\ PodIdle /\ ImgIdle /\ UnwIdle /\ PsIdle /\ ScIdle /\ PaIdle
SpecVeo == InitVeo /\ [][VeoNext]_vars

InitSolve == SolveInit /\ OmInit /\ OmcIdle /\ VeoIdle /\ PodIdle /\ ImgIdle /\ UnwIdle /\ PsIdle /\ ScIdle /\ PaIdle
SpecSolve == InitSolve /\ [][SolveNext]_vars

InitPodcast == PodInit /\ VeoIdle /\ SolveIdle /\ OmInit /\ OmcIdle /\ ImgIdle /\ UnwIdle /\ PsIdle /\ ScIdle /\ PaIdle
SpecPodcast == InitPodcast /\ [][PodNext]_vars

InitImage == ImgInit /\ VeoIdle /\ SolveIdle /\ OmInit /\ OmcIdle /\ PodIdle /\ UnwIdle /\ PsIdle /\ ScIdle /\ PaIdle
SpecImage == InitImage /\ [][ImgNext]_vars

InitUnwrap == UnwInit /\ VeoIdle /\ SolveIdle /\ OmInit /\ OmcIdle /\ PodIdle /\ ImgIdle /\ PsIdle /\ ScIdle /\ PaIdle
SpecUnwrap == InitUnwrap /\ [][UnwNext]_vars

InitParseSegments ==
  /\ PsInit /\ VeoIdle /\ SolveIdle /\ OmInit /\ OmcIdle /\ PodIdle /\ ImgIdle /\ UnwIdle
  /\ ScIdle /\ PaIdle
SpecParseSegments == InitParseSegments /\ [][PsNext]_vars

InitParseScript ==
  /\ ScInit /\ VeoIdle /\ SolveIdle /\ OmInit /\ OmcIdle /\ PodIdle /\ ImgIdle /\ UnwIdle
  /\ PsIdle /\ PaIdle
SpecParseScript == InitParseScript /\ [][ScNext]_vars

InitPaths ==
  /\ PaInit /\ VeoIdle /\ SolveIdle /\ OmInit /\ OmcIdle /\ PodIdle /\ ImgIdle /\ UnwIdle
  /\ PsIdle /\ ScIdle
SpecPaths == InitPaths /\ [][PaNext]_vars

InitOutputManager ==
  /\ OmcInit /\ OmInit /\ VeoIdle /\ SolveIdle /\ PodIdle /\ ImgIdle /\ UnwIdle
  /\ PsIdle /\ ScIdle /\ PaIdle
SpecOutputManager == InitOutputManager /\ [][OmcNext]_vars

\* ===========================================================================
\* Claims
\* ===========================================================================

\* ---------------------------------------------------------------------------
\* C1: when no status poll reports a truthy "done", wait_done ends by raising,
\* with TimeoutError exactly when no status call failed (a failed status call
\* ends it with the transport error instead); it returns no status response and
\* no download request is ever issued.
\* ---------------------------------------------------------------------------
WaitDoneEnded == veo_pc \in {"returned", "raised", "downloaded"} /\ start # -1

C1_TimeoutRaisesNoDownload ==
  /\ ~sawDone => (wd_result = Nothing /\ download_requests = 0 /\ ~video_file)
  /\ (WaitDoneEnded /\ ~sawDone) =>
        /\ veo_pc = "raised"
        /\ veo_error \in {"TimeoutError", "HTTPError"}
        /\ ((veo_error = "TimeoutError") <=> ~statusFailed)
        /\ ((veo_error = "HTTPError") <=> statusFailed)

C1_Witness ==
  /\ veo_pc = "raised" /\ veo_error = "TimeoutError"
  /\ polls >= 2 /\ ~sawDone /\ ~statusFailed
  /\ download_requests = 0

\* ---------------------------------------------------------------------------
\* C2: when the script holds zero recognizable segments, solve halts before any
\* network call (no image-generation or speech request) and writes no
\* per-segment or final video.
\* ---------------------------------------------------------------------------
ZeroSegments == sol_pc # "idle" /\ DOMAIN ParseSegments(script) = {}

C2_ZeroSegmentsHaltBeforeNetwork ==
  ZeroSegments =>
    /\ image_requests = 0 /\ tts_requests = <<>>
    /\ video_clips = <<>> /\ final_video = Nothing

\* ---------------------------------------------------------------------------
\* C4 (as amended): a successful run on a two-segment script (one segment per
\* character key, both with dialogue) writes exactly NUM_SEGMENTS per-segment
\* videos, one for each index 1..NUM_SEGMENTS in order, and then exactly one
\* final video made of exactly those clips.
\* ---------------------------------------------------------------------------
TwoSegmentScript ==
  /\ Len(script) = 2
  /\ \E a, b \in 1..2 :
       /\ a # b
       /\ Contains(Characters[1], script[a].visual)
       /\ Contains(Characters[2], script[b].visual)
  /\ \A k \in 1..2 : script[k].dialogue # ""

C4_TwoSegmentsWriteNumSegmentsClips ==
  (sol_pc = "done" /\ TwoSegmentScript) =>
    /\ Len(video_clips) = NUM_SEGMENTS
    /\ \A k \in 1..Len(video_clips) : video_clips[k].index = k
    /\ final_video # Nothing /\ final_video[1].clips = video_paths
    /\ Len(video_paths) = NUM_SEGMENTS

C4_Witness ==
  /\ sol_pc = "done" /\ TwoSegmentScript
  /\ Len(video_clips) = NUM_SEGMENTS /\ Len(tts_requests) = 2
  /\ Cardinality({k \in 1..Len(video_clips) : video_clips[k].audio}) = 2
  /\ final_video # Nothing

\* C4 as stated: exactly two per-segment videos, then one final video.
C4_Original ==
  (sol_pc = "done" /\ TwoSegmentScript) =>
    (Len(video_clips) = 2 /\ final_video # Nothing)

\* ---------------------------------------------------------------------------
\* C5 (as amended): after a successful run on a fresh OutputManager, solution 1
\* records exactly one step (the final video), total_files is 1 and
\* total_size_mb is the size of the saved final artifact.
\* ---------------------------------------------------------------------------
Solution1Steps == om_solutions[SolutionKey(1)].steps

C5_OneStepAndExactSize ==
  sol_pc = "done" =>
    /\ Len(Solution1Steps) = 1
    /\ Solution1Steps[1].size_mb = SizeMb(final_video[1].size)
    /\ total_files = 1
    /\ total_size_mb = SizeMb(final_video[1].size)
    /\ Cardinality(final_copies) = 2

C5_Witness ==
  /\ sol_pc = "done" /\ Len(Solution1Steps) = 1
  /\ total_files = 1 /\ total_size_mb = SizeMb(final_video[1].size)
  /\ final_video[1].size > 1

\* C5 as stated: two completed steps.
C5_Original ==
  sol_pc = "done" =>
    /\ Len(Solution1Steps) = 2
    /\ total_size_mb = SizeMb(final_video[1].size)

\* ---------------------------------------------------------------------------
\* C6: in step 3, a segment whose audio processing raised inside the try block
\* gets a clip with no audio and a duration of exactly the default 8 seconds.
\* ---------------------------------------------------------------------------
C6_FallbackClipSilentDefaultDuration ==
  \A k \in 1..Len(video_clips) :
    video_clips[k].raised =>
      (~video_clips[k].audio /\ video_clips[k].duration = DefaultDuration)

\* ---------------------------------------------------------------------------
\* C7 (as amended): for every segment that is synthesized and rendered, the
\* voice is the nguoi_cao_tuoi voice exactly when the image is the
\* nguoi_cao_tuoi reference; the chuyen_gia reference always comes with the
\* chuyen_gia voice; with no key in the visual text the default voice (which is
\* the chuyen_gia voice) comes with the background image; with both keys
\* nguoi_cao_tuoi wins for both.
\* ---------------------------------------------------------------------------
RequestsAndClips ==
  {rc \in (1..Len(tts_requests)) \X (1..Len(video_clips)) :
     tts_requests[rc[1]].index = video_clips[rc[2]].index}

VoiceOf(rc) == tts_requests[rc[1]].voice_name
ImageOf(rc) == video_clips[rc[2]].image
VisualOf(rc) == SegmentField(segments, tts_requests[rc[1]].index, "visual")
NoKey(visual_desc) ==
  ~Contains("nguoi_cao_tuoi", visual_desc) /\ ~Contains("chuyen_gia", visual_desc)
BothKeys(visual_desc) ==
  Contains("nguoi_cao_tuoi", visual_desc) /\ Contains("chuyen_gia", visual_desc)

C7_VoiceAndImageAgree ==
  \A rc \in RequestsAndClips :
    /\ (VoiceOf(rc) = VOICE_MAP["nguoi_cao_tuoi"]) <=> (ImageOf(rc) = RefPath("nguoi_cao_tuoi"))
    /\ (ImageOf(rc) = RefPath("chuyen_gia")) => (VoiceOf(rc) = VOICE_MAP["chuyen_gia"])
    /\ NoKey(VisualOf(rc)) =>
         (VoiceOf(rc) = VOICE_MAP["chuyen_gia"] /\ ImageOf(rc) = BackgroundPath)
    /\ BothKeys(VisualOf(rc)) =>
         (VoiceOf(rc) = VOICE_MAP["nguoi_cao_tuoi"] /\ ImageOf(rc) = RefPath("nguoi_cao_tuoi"))

C7_Witness ==
  /\ \E rc \in RequestsAndClips :
       /\ NoKey(VisualOf(rc))
       /\ VoiceOf(rc) = VOICE_MAP["chuyen_gia"] /\ ImageOf(rc) = BackgroundPath
  /\ \E rc \in RequestsAndClips :
       /\ BothKeys(VisualOf(rc))
       /\ VoiceOf(rc) = VOICE_MAP["nguoi_cao_tuoi"]

\* C7 as stated: the chuyen_gia voice exactly when the chuyen_gia reference.
C7_Original ==
  \A rc \in RequestsAndClips :
    /\ (VoiceOf(rc) = VOICE_MAP["nguoi_cao_tuoi"]) <=> (ImageOf(rc) = RefPath("nguoi_cao_tuoi"))
    /\ (VoiceOf(rc) = VOICE_MAP["chuyen_gia"]) <=> (ImageOf(rc) = RefPath("chuyen_gia"))

\* ---------------------------------------------------------------------------
\* C3: when parse_script returns None or the empty list, main reports that no
\* dialogues were found and returns without any synthesis request and without
\* writing the output WAV file.
\* ---------------------------------------------------------------------------
C3_NoDialoguesNoSynthesis ==
  (pod_pc \notin {"idle", "start"} /\ (dialogues = Nothing \/ dialogues = Some(<<>>))) =>
    /\ pod_pc = "returned" /\ pod_error = None
    /\ reported = "no dialogues"
    /\ synth_requests = <<>>
    /\ audio_files = <<>> /\ wav_files = <<>>
    /\ output_wav = Nothing

C3_Witness ==
  /\ pod_pc = "returned" /\ dialogues = Some(<<>>)
  /\ reported = "no dialogues" /\ synth_requests = <<>> /\ output_wav = Nothing

\* ---------------------------------------------------------------------------
\* C10: in main's loop a line whose speaker has no configured voice is skipped
\* (no request, no chunk and no silence gap in audio_files) and the loop goes
\* on; every other line gets exactly one synthesis request, with its own text
\* and its speaker's voice, in script order.
\* ---------------------------------------------------------------------------
\* Lines the loop has started (the one that raised included).
LinesStarted == line_i + (IF pod_pc = "raised" THEN 1 ELSE 0)
Configured(k) == dialogues[1][k].speaker \in DOMAIN VOICES

C10_UnmappedSkippedOthersOnce ==
  (pod_pc \notin {"idle", "start"} /\ dialogues # Nothing) =>
    LET lines == dialogues[1]
        mapped == {k \in 1..LinesStarted : Configured(k)}
    IN /\ Len(synth_requests) = Cardinality(mapped)
       /\ \A a \in 1..Len(synth_requests) :
            LET r == synth_requests[a]
            IN /\ (r.i + 1) \in mapped
               /\ r.text = lines[r.i + 1].text
               /\ r.voice_name = VOICES[lines[r.i + 1].speaker]
       /\ \A a, b \in 1..Len(synth_requests) :
            a < b => synth_requests[a].i < synth_requests[b].i
       /\ \A k \in 1..Len(lines) : \A j \in 1..Len(audio_files) :
            ~Configured(k) =>
              (audio_files[j] # ChunkPath(k - 1) /\ audio_files[j] # SilencePath(k - 1))
       /\ pod_pc = "returned" => line_i = Len(lines)

C10_Witness ==
  /\ pod_pc = "returned" /\ dialogues # Nothing /\ Len(dialogues[1]) = 3
  /\ Configured(1) /\ ~Configured(2) /\ Configured(3)
  /\ Len(synth_requests) = 2
  /\ synth_requests[1].i = 0 /\ synth_requests[2].i = 2
  /\ audio_files = <<SilenceStartPath, ChunkPath(0), SilencePath(0),
                     ChunkPath(2), SilencePath(2)>>
  /\ output_wav # Nothing

\* ---------------------------------------------------------------------------
\* C8: generate issues at most two requests; the second, of the alternate
\* shape, is issued exactly when the first attempt failed at transport level
\* (connection failure or non-success status); when the second fails too the
\* call ends in an error.
\* ---------------------------------------------------------------------------
TransportFailure(outcome) == outcome \in {"error_status", "connection_error"}

C8_RetryOnceOnAnyTransportFailure ==
  /\ Len(img_requests) <= 2
  /\ img_pc \in {"second", "returned", "raised"} =>
       /\ (img_pc = "second" \/ Len(img_requests) = 2) <=> TransportFailure(img_responses[1])
       /\ Len(img_requests) = 2 => img_requests[2].shape = "alternate"
       /\ (Len(img_responses) = 2 /\ TransportFailure(img_responses[2])) => img_pc = "raised"

\* ---------------------------------------------------------------------------
\* C9: when an expected field of the decoded body is absent or empty, the
\* operation ends in a failure raised to its caller after exactly one request,
\* returns no payload and writes no output file.
\* ---------------------------------------------------------------------------
C9_MissingFieldRaisesAfterOneRequest ==
  (unw_pc \in {"returned", "raised"} /\ unw_decoded /\ unw_body[1].defect_at # 0) =>
    /\ unw_pc = "raised" /\ unw_error # None
    /\ unw_requests = 1
    /\ unw_result = Nothing
    /\ ~unw_file

\* ---------------------------------------------------------------------------
\* C11: when main has combined its files without an I/O error, the list handed
\* to combine_wav_files is the initial silence followed, for each line whose
\* generate_audio_chunk call returned True, in script order, by that line's
\* chunk and then its silence gap; a line whose call returned False adds
\* neither; and the frames of the output are the sum of the frames of exactly
\* those files.
\* ---------------------------------------------------------------------------
RECURSIVE ExpectedFiles(_)
ExpectedFiles(results) ==
  IF results = <<>> THEN <<SilenceStartPath>>
  ELSE LET r == results[Len(results)]
       IN ExpectedFiles(SubSeq(results, 1, Len(results) - 1)) \o
            (IF r.returned THEN <<ChunkPath(r.i), SilencePath(r.i)>> ELSE <<>>)

RECURSIVE ExpectedFrames(_)
ExpectedFrames(results) ==
  IF results = <<>> THEN SilenceStartFrames
  ELSE LET r == results[Len(results)]
       IN ExpectedFrames(SubSeq(results, 1, Len(results) - 1)) +
            (IF r.returned THEN r.frames + SilenceGapFrames ELSE 0)

ConfigurationError == ~api_key_set \/ ~script_exists \/ ~gif_exists

C12_ConfigErrorAbortsBeforeRemoteCall ==
  (sol_pc # "idle" /\ ConfigurationError) =>
    /\ image_requests = 0 /\ tts_requests = <<>>
    /\ sol_pc \in {"config", "setup", "raised"}
    /\ sol_pc = "raised" =>
         sol_error = (IF ~api_key_set THEN "ValueError" ELSE "FileNotFoundError")
    /\ sol_pc = "setup" => api_key_set
    /\ video_clips = <<>> /\ final_video = Nothing

C12_Witness ==
  /\ sol_pc = "raised" /\ sol_error = "FileNotFoundError"
  /\ api_key_set /\ script_exists /\ ~gif_exists
  /\ image_requests = 0 /\ tts_requests = <<>>

\* ---------------------------------------------------------------------------
\* C13: for a script text made of K segment blocks that each carry a Visual
\* and a Dialogue label, parse_segments returns one entry per block number,
\* holding the visual and dialogue texts of that block (of the last block with
\* that number, if a number is repeated) without the whitespace around them;
\* with K different numbers these are exactly K entries, each block's own.
\* ---------------------------------------------------------------------------
BlockNumber(k) == IntOf(ps_blocks[k].digits)
OwnFields(k) ==
  [visual |-> ps_blocks[k].visual.text, dialogue |-> ps_blocks[k].dialogue.text]
BothLabels(k) == ps_blocks[k].visual.present /\ ps_blocks[k].dialogue.present
DistinctNumbers ==
  \A a, b \in 1..Len(ps_blocks) : a # b => BlockNumber(a) # BlockNumber(b)

AtLeastOneLabel(k) == ps_blocks[k].visual.present \/ ps_blocks[k].dialogue.present

C14_MissingFieldGivesEmptyText ==
  LET lacking == {k \in 1..Len(ps_blocks) : ~BothLabels(k)}
      labelled == {k \in 1..Len(ps_blocks) : AtLeastOneLabel(k)}
  IN (ps_pc = "returned" /\ DistinctNumbers
        /\ lacking # {} /\ labelled = 1..Len(ps_blocks)) =>
       \A k \in 1..Len(ps_blocks) :
         /\ BlockNumber(k) \in DOMAIN ps_result
         /\ ps_result[BlockNumber(k)] = OwnFields(k)

\* ---------------------------------------------------------------------------
\* C15: parse_script returns, for the matching lines in order, the speaker and
\* the utterance, where an utterance that starts with a parenthetical loses
\* only that parenthetical and the whitespace after it: everything after the
\* first closing parenthesis is kept.  Lines that do not match give no entry.
\* ---------------------------------------------------------------------------
\* The utterance without its leading parenthetical, as the claim describes it.
WithoutLeadingParenthetical(text) ==
  LET closing == {k \in 2..Len(text) : text[k].kind = ")"}
  IN IF text # <<>> /\ text[1].kind = "(" /\ closing # {}
       THEN SubSeq(text, SkipSpaces(text, Least(closing) + 1), Len(text))
       ELSE text

RECURSIVE ClaimedEntries(_)
ClaimedEntries(lines) ==
  IF lines = <<>> THEN <<>>
  ELSE LET line == Head(lines)
           text == WithoutLeadingParenthetical(Strip(line.utterance))
       IN (IF LineMatches(line) /\ text # <<>>
             THEN <<[speaker |-> line.speaker, text |-> text]>>
             ELSE <<>>)
          \o ClaimedEntries(Tail(lines))

C15_OnlyLeadingParentheticalRemoved ==
  (sc_pc = "returned" /\ sc_lines # Nothing) =>
    sc_result = Some(ClaimedEntries(sc_lines[1]))

\* ---------------------------------------------------------------------------
\* C16: two different working files of one run (the reference images, the
\* audio and video file of every index, the final output; the initial silence,
\* the chunk and the silence of every line) never get the same path string.
\* ---------------------------------------------------------------------------
C16_WorkingPathsAreDistinct ==
  (pa_pc = "assigned" /\ pa_files[1] # pa_files[2]) => pa_names[1] # pa_names[2]

C16_Witness ==
  /\ pa_pc = "assigned"
  /\ pa_files[1].holds = "audio" /\ pa_files[1].i = 1
  /\ pa_files[2].holds = "audio" /\ pa_files[2].i = 11
  /\ pa_names[1] = <<"{folder}", "/", "intermediate", "/", "audio", "_", "1", ".", "mp3">>
  /\ pa_names[2] # pa_names[1]

\* ---------------------------------------------------------------------------
\* C17: once main has started, nothing an earlier run left under TEMP_DIR is
\* there any more; and whenever main has returned, by the early return
\* included, TEMP_DIR does not exist.
\* ---------------------------------------------------------------------------
C17_TempDirRemovedOnEveryReturn ==
  /\ pod_pc \notin {"idle", "start"} => StalePath \notin DOMAIN wav_files
  /\ pod_pc = "returned" => ~temp_dir

\* ---------------------------------------------------------------------------
\* C18: with status requests that take no time, wait_done returns or raises at
\* most timeout_sec after it was entered, and consecutive status requests are
\* exactly interval_sec apart.
\* ---------------------------------------------------------------------------
Elapsed == now - start

C18_BlocksAtMostTimeout ==
  status_took = 0 =>
    /\ WaitDoneEnded => Elapsed <= timeout_sec
    /\ \A k \in 1..(Len(check_times) - 1) :
         check_times[k + 1] - check_times[k] = interval_sec

\* ---------------------------------------------------------------------------
\* C19: the clips handed to concatenation are exactly one per index
\* 1..NUM_SEGMENTS, in increasing order; and the stages of solve do not
\* interleave: once a per-segment video is written no speech request follows,
\* the final video is encoded only with every per-segment video written and
\* none is written after it, and save_final_file is called, and changes the
\* run record, only after the final video was encoded.
\* ---------------------------------------------------------------------------
AllClipsInOrder ==
  /\ Len(video_clips) = NUM_SEGMENTS /\ Len(video_paths) = NUM_SEGMENTS
  /\ \A k \in 1..NUM_SEGMENTS :
       video_clips[k].index = k /\ video_paths[k] = video_clips[k].path

SpeechBeforeClips == video_clips # <<>> => tts_requests' = tts_requests
ClipsBeforeConcat ==
  /\ final_video' # final_video => (AllClipsInOrder /\ video_clips' = video_clips)
  /\ final_video # Nothing => video_clips' = video_clips
EncodedBeforeSave ==
  (final_copies' # final_copies \/ total_files' # total_files) => final_video # Nothing

C19_ClipsInOrderStagesInSequence ==
  /\ [](sol_pc \in {"concat", "save_final", "save_meta", "done"} => AllClipsInOrder)
  /\ [](final_video # Nothing => final_video[1].clips = video_paths)
  /\ [](sol_pc \in {"save_final", "save_meta", "done"} => final_video # Nothing)
  /\ [][SpeechBeforeClips /\ ClipsBeforeConcat /\ EncodedBeforeSave]_vars

C19_Witness ==
  /\ sol_pc = "save_meta" /\ AllClipsInOrder
  /\ Len(tts_requests) = 2 /\ tts_requests[2].index = 2
  /\ final_video # Nothing /\ total_files = 1

\* ---------------------------------------------------------------------------
\* C20: when a remote call of solve (a reference-image generation or a
\* segment's speech synthesis) fails, solve ends there with that exception:
\* nothing at all happens after it (no further request, no per-segment video,
\* no final video, no save_final_file and no save_metadata), and the run
\* record keeps no step and its totals stay 0.
\* ---------------------------------------------------------------------------
RemoteCallFailed == failed_calls > 0

C20_RemoteFailureStopsRun ==
  /\ [](RemoteCallFailed =>
          /\ failed_calls = 1
          /\ sol_pc = "raised" /\ sol_error \in {"HTTPError", "ValueError"}
          /\ video_clips = <<>> /\ video_paths = <<>> /\ final_video = Nothing
          /\ final_copies = {} /\ ~metadata_json
          /\ Solution1Steps = <<>> /\ total_files = 0 /\ total_size_mb = 0
          /\ \A k \in 1..Len(tts_requests) :
               (tts_requests[k].index \in DOMAIN audio_paths) <=> (k < Len(tts_requests)))
  /\ [][~RemoteCallFailed]_vars

C20_Witness ==
  /\ RemoteCallFailed /\ sol_pc = "raised" /\ sol_error = "ValueError"
  /\ Len(tts_requests) = 2 /\ DOMAIN audio_paths = {1}
  /\ image_requests = 3 /\ video_clips = <<>> /\ total_files = 0

\* ---------------------------------------------------------------------------
\* C21: every speaker name parse_script can emit is a key of VOICES, so when
\* main has gone through a non-empty list of dialogue lines that parse_script
\* produced, it has skipped none of them for want of a voice and has issued at
\* least one synthesis request.
\* ---------------------------------------------------------------------------
\* The list main works on is one parse_script returns: the speaker of each
\* entry is match.group(1) of the pattern of line 33.
ParserProduced(d) ==
  d # Nothing /\ \A k \in 1..Len(d[1]) : d[1][k].speaker \in PatternSpeakers

\* The lines main has passed with the warning of line 149.
SkippedForVoice ==
  {k \in 1..line_i : VoiceName(dialogues[1][k].speaker) = Nothing}

C21_ParsedSpeakersAreSynthesized ==
  /\ (ParserProduced(dialogues) /\ pod_pc \in {"loop", "returned", "raised"}) =>
       SkippedForVoice = {}
  /\ (ParserProduced(dialogues) /\ dialogues[1] # <<>> /\ pod_pc = "returned") =>
       synth_requests # <<>>

\* ---------------------------------------------------------------------------
\* C22: after any sequence of create_solution_folder and save_final_file calls
\* on one OutputManager (a solution number created twice and a file saved for
\* an unregistered number included), total_files equals the number of steps
\* recorded over all solutions, and total_files never decreases.
\* ---------------------------------------------------------------------------
RECURSIVE StepsRecorded(_, _)
StepsRecorded(sols, keys) ==
  IF keys = {} THEN 0
  ELSE LET key == CHOOSE x \in keys : TRUE
       IN Len(sols[key].steps) + StepsRecorded(sols, keys \ {key})

TotalSteps == StepsRecorded(om_solutions, DOMAIN om_solutions)

C22_TotalFilesCountsSteps ==
  /\ [](om_pc = "ready" => total_files = TotalSteps)
  /\ [][total_files' >= total_files]_vars

\* ---------------------------------------------------------------------------
\* C23: a save_final_file call that raises (either copy failed) leaves the step
\* lists, total_files and total_size_mb as they were; one that returns has
\* appended exactly one step to the solution of its number, changed no other
\* solution, and raised total_files by exactly 1.
\* ---------------------------------------------------------------------------
SaveEnded(result) ==
  om_last'.k # om_last.k /\ om_last'.op = "save" /\ om_last'.result = result

OneStepAppended(key) ==
  /\ key \in DOMAIN om_solutions /\ DOMAIN om_solutions' = DOMAIN om_solutions
  /\ Len(om_solutions'[key].steps) = Len(om_solutions[key].steps) + 1
  /\ \A other \in DOMAIN om_solutions :
       SubSeq(om_solutions'[other].steps, 1, Len(om_solutions[other].steps))
         = om_solutions[other].steps
  /\ \A other \in DOMAIN om_solutions \ {key} :
       om_solutions'[other] = om_solutions[other]

C23_SaveFinalFileAllOrNothing ==
  [][/\ SaveEnded("raised") => UNCHANGED <<om_solutions, total_files, total_size_mb>>
     /\ SaveEnded("returned") =>
          /\ OneStepAppended(SolutionKey(om_last'.solution_number))
          /\ total_files' = total_files + 1]_vars

====
